---- MODULE Spec2Model ----
(***************************************************************************)
(* clipod: the job status store (backend/app/utils/status_manager.py) and  *)
(* the job pipeline (backend/app/main.py, backend/app/worker/processor.py).*)
(*                                                                         *)
(* Times are integers in milliseconds.  time.time() is a logical clock     *)
(* that advances by one with every store call that reads it.               *)
(*                                                                         *)
(* Three specifications share the variables:                               *)
(*   Spec        jobs submitted through process_video and driven by        *)
(*               process_youtube_video, one step per store write;          *)
(*   StoreSpec   arbitrary sequences of StatusManager calls, one call per  *)
(*               step (each call is atomic under the store's lock);        *)
(*   ThreadSpec  threads inside StatusManager calls, one step per lock     *)
(*               operation and per dictionary access.                      *)
(***************************************************************************)
EXTENDS Integers, Sequences, FiniteSets, TLC

VARIABLES
    jobs,             \* StatusManager.jobs: job id -> job record
    clock,            \* time.time()
    disk,             \* the status directory: job id -> saved record
    last,             \* the last StatusManager call and how it ended
    pc,               \* per job: where its process_youtube_video task is
    highlights,       \* per job: the highlights identify_highlights returned
    idx,              \* per job: the loop index of generate_clips
    generated_clips,  \* per job: generate_clips's generated_clips list
    log,              \* per job: collaborator and store calls made for it
    loop,             \* the job whose task runs on the event loop, or Free
    tpc,              \* per thread: position inside its StatusManager call
    tcall,            \* per thread: the call it makes
    tpos,             \* per thread: index of the next kwargs item to write
    lock,             \* StatusManager._lock: the holder, or NoThread
    snap,             \* the dictionary a get_status call handed to its caller
    srt,              \* one run of extract_srt_segment
    tc,               \* one time string on its way through the time codec
    dl                \* per job: the download loop and its child process

vars == <<jobs, clock, disk, last, pc, highlights, idx, generated_clips, log,
          loop, tpc, tcall, tpos, lock, snap, srt, tc, dl>>

pipeVars == <<pc, highlights, idx, generated_clips, log, loop>>
threadVars == <<tpc, tcall, tpos, lock>>
sideVars == <<snap, srt, tc, dl>>

(***************************************************************************)
(* Bounds and universes                                                    *)
(***************************************************************************)
MaxHighlights == 2          \* longest list the highlight selector returns
MaxCalls == 4               \* StoreSpec: number of store calls in a run
NThreads == 3               \* ThreadSpec: number of concurrent callers
MaxClips == 2               \* SnapSpec: longest list a caller appends to
MaxCues == 2                \* SrtSpec: most blocks in a caption file

JobIds == {"a", "b"}
None == "None"              \* Python's None
NoThread == 0
Free == ""
ExcTexts == {""}            \* str(e) of a collaborator's exception

(***************************************************************************)
(* StatusManager (status_manager.py)                                       *)
(***************************************************************************)
job_existsAlways(js, id) == TRUE

job_exists(js, id) == id \in DOMAIN js

NewJob(id, now) ==
    [job_id |-> id, status |-> "initializing", current_step |-> "starting",
     progress |-> 0, message |-> "Job initialized", error |-> None,
     clips |-> <<>>, start_time |-> now, update_time |-> now]

PutAlone(js, id, rec) == [k \in {id} |-> rec]

Put(js, id, rec) ==
    [k \in DOMAIN js \cup {id} |-> IF k = id THEN rec ELSE js[k]]

\* A store call's outcome: the new map and the exception it raised, if any.
Ok(js) == [jobs |-> js, raised |-> None]
Raise(js, exc) == [jobs |-> js, raised |-> exc]

create_job(js, id, now) == Ok(Put(js, id, NewJob(id, now)))

\* lines 46-47: one kwargs item, written only if the key is a field
SetKey(rec, kv) ==
    IF kv[1] \in DOMAIN rec THEN [rec EXCEPT ![kv[1]] = kv[2]] ELSE rec

MergeKwargsFirstOnly(rec, kwargs) ==
    IF kwargs = <<>> THEN rec ELSE SetKey(rec, kwargs[1])

RECURSIVE MergeKwargs(_, _)
MergeKwargs(rec, kwargs) ==
    IF kwargs = <<>> THEN rec
    ELSE MergeKwargs(SetKey(rec, Head(kwargs)), Tail(kwargs))

Touch(rec, now) == [rec EXCEPT !.update_time = now]

update_status(js, id, kwargs, now) ==
    IF ~job_exists(js, id) THEN Ok(js)
    ELSE IF id \notin DOMAIN js THEN Raise(js, "KeyError")
    ELSE Ok([js EXCEPT ![id] = Touch(MergeKwargs(@, kwargs), now)])

\* lines 62-65, on the job's dictionary
AppendClipAssigns(rec, clip_info) == [rec EXCEPT !.clips = <<clip_info>>]

AppendClip(rec, clip_info) ==
    IF "clips" \notin DOMAIN rec
    THEN [k \in DOMAIN rec \cup {"clips"} |->
            IF k = "clips" THEN <<clip_info>> ELSE rec[k]]
    ELSE [rec EXCEPT !.clips = Append(@, clip_info)]

add_clip(js, id, clip_info) ==
    IF ~job_exists(js, id) THEN Ok(js)
    ELSE IF id \notin DOMAIN js THEN Raise(js, "KeyError")
    ELSE Ok([js EXCEPT ![id] = AppendClip(@, clip_info)])

get_status(js, id) ==
    IF ~job_exists(js, id) THEN [value |-> <<>>, raised |-> None]
    ELSE IF id \notin DOMAIN js THEN [value |-> <<>>, raised |-> "KeyError"]
    ELSE [value |-> js[id], raised |-> None]

MarkCompletedKwargs ==
    << <<"status", "completed">>, <<"current_step", "finished">>,
       <<"progress", 100>>,
       <<"message", "Processing completed successfully">> >>

mark_completed(js, id, now) == update_status(js, id, MarkCompletedKwargs, now)

MarkFailedKwargs(error_message) ==
    << <<"status", "failed">>,
       <<"message", "Processing failed: " \o error_message>>,
       <<"error", error_message>> >>

mark_failed(js, id, error_message, now) ==
    update_status(js, id, MarkFailedKwargs(error_message), now)

save_to_diskKeepsOld(js, dk) ==
    [k \in DOMAIN dk \cup DOMAIN js |-> IF k \in DOMAIN dk THEN dk[k] ELSE js[k]]

\* json.dump of every job into <status_dir>/<job_id>.json
save_to_disk(js, dk) ==
    [k \in DOMAIN dk \cup DOMAIN js |-> IF k \in DOMAIN js THEN js[k] ELSE dk[k]]

load_from_diskReplaces(js, dk) ==
    LET loaded == {k \in DOMAIN dk : dk[k].job_id # ""}
    IN  [k \in {dk[f].job_id : f \in loaded} |->
            dk[CHOOSE f \in loaded : dk[f].job_id = k]]

\* every <id>.json whose "job_id" is truthy replaces jobs[job_id]
load_from_disk(js, dk) ==
    LET loaded == {k \in DOMAIN dk : dk[k].job_id # ""}
    IN  [k \in DOMAIN js \cup {dk[f].job_id : f \in loaded} |->
            IF \E f \in loaded : dk[f].job_id = k
            THEN dk[CHOOSE f \in loaded : dk[f].job_id = k]
            ELSE js[k]]

(***************************************************************************)
(* Time codec (processor.py).  A time string is the sequence of its        *)
(* ':'-separated parts; a part is a run of digits ("int", v its value), a  *)
(* decimal number written with '.' ("dec") or with ',' ("cdec"), v its     *)
(* value in milliseconds, or anything else ("bad").                        *)
(***************************************************************************)
IntPart(n) == [kind |-> "int", v |-> n]
DecPart(ms) == [kind |-> "dec", v |-> ms]
CommaPart(ms) == [kind |-> "cdec", v |-> ms]
BadPart == [kind |-> "bad", v |-> 0]

\* int(part) and float(part) of a part after replace(',', '.')
IntOk(p) == p.kind = "int"
FloatOk(p) == p.kind \in {"int", "dec", "cdec"}
FloatMs(p) == IF p.kind = "int" THEN p.v * 1000 ELSE p.v

Value(ms) == [raised |-> None, value |-> ms]
ValueError == [raised |-> "ValueError", value |-> 0]

time_to_seconds(time_str) ==
    IF Len(time_str) = 3 THEN
        IF IntOk(time_str[1]) /\ IntOk(time_str[2]) /\ FloatOk(time_str[3])
        THEN Value(time_str[1].v * 3600000 + time_str[2].v * 60000
                   + FloatMs(time_str[3]))
        ELSE ValueError
    ELSE IF Len(time_str) = 2 THEN
        IF IntOk(time_str[1]) /\ FloatOk(time_str[2])
        THEN Value(time_str[1].v * 60000 + FloatMs(time_str[2]))
        ELSE ValueError
    ELSE \* float(time_str) on the string as given, ValueError -> 0.0
        IF Len(time_str) = 1 /\ time_str[1].kind \in {"int", "dec"}
        THEN Value(FloatMs(time_str[1]))
        ELSE Value(0)

(***************************************************************************)
(* The collaborators' possible answers                                     *)
(***************************************************************************)
\* The i-th element of the selector's JSON array: "MM:SS" strings, the odd
\* ones 3 s long, the even ones ending 2 s before they start.
RawHighlight(i) ==
    [title |-> "t" \o ToString(i),
     start_time |-> <<IntPart(0), IntPart(5 * (i - 1))>>,
     end_time |-> <<IntPart(0), IntPart(IF i % 2 = 1 THEN 5 * (i - 1) + 3
                                                     ELSE 5 * (i - 1) - 2)>>]

\* an element whose start_time is not a time, such as "0:xx"
MalformedHighlight ==
    [title |-> "t0", start_time |-> <<IntPart(0), BadPart>>,
                     end_time   |-> <<IntPart(0), IntPart(3)>>]

\* the arrays the selector may answer: zero to MaxHighlights elements
SelectorAnswers ==
    {[i \in 1..k |-> RawHighlight(i)] : k \in 0..MaxHighlights}
        \cup {<<MalformedHighlight>>}

\* ffmpeg .run(): success, ffmpeg.Error, or any other exception
RenderOutcomes == {"ok", "ffmpeg.Error", "Exception"}

(***************************************************************************)
(* identify_highlights, lines 498-509: time strings to seconds             *)
(***************************************************************************)
ConvertHighlight(h) ==
    [title |-> h.title,
     start_seconds |-> time_to_seconds(h.start_time).value,
     end_seconds |-> time_to_seconds(h.end_time).value,
     duration |-> time_to_seconds(h.end_time).value
                  - time_to_seconds(h.start_time).value]

ConversionRaises(raw) ==
    \E i \in 1..Len(raw) :
        \/ time_to_seconds(raw[i].start_time).raised # None
        \/ time_to_seconds(raw[i].end_time).raised # None

\* generate_clips, lines 573-581
ClipInfo(h) ==
    [title |-> h.title, start_time |-> h.start_seconds,
     end_time |-> h.end_seconds, duration |-> h.duration]

(***************************************************************************)
(* process_youtube_video (processor.py 48-255): the status it writes       *)
(***************************************************************************)
Stages == <<"downloading", "transcribing", "analyzing", "generating_clips">>

StageFloorFalling(stage) ==
    CASE stage = "downloading" -> 0
      [] stage = "transcribing" -> 40
      [] stage = "analyzing" -> 20
      [] stage = "generating_clips" -> 60

StageFloor(stage) ==
    CASE stage = "downloading" -> 0
      [] stage = "transcribing" -> 20
      [] stage = "analyzing" -> 40
      [] stage = "generating_clips" -> 60

EntryMessage(stage) ==
    CASE stage = "downloading" -> "Downloading video"
      [] stage = "transcribing" -> "Transcribing video"
      [] stage = "analyzing" -> "Identifying highlights"
      [] stage = "generating_clips" -> "Generating clips"

FailMessage(stage) ==
    CASE stage = "downloading" -> "Failed to download video"
      [] stage = "transcribing" -> "Failed to transcribe video"
      [] stage = "analyzing" -> "Failed to identify highlights"
      [] stage = "generating_clips" -> "Failed to generate clips"

ErrorPrefix(stage) ==
    CASE stage = "downloading" -> "Download error: "
      [] stage = "transcribing" -> "Transcription error: "
      [] stage = "analyzing" -> "Analysis error: "
      [] stage = "generating_clips" -> "Clip generation error: "

\* str(e) as the stage's handler sees it: transcribe_video (426),
\* identify_highlights (509) and generate_clips (592) wrap what they caught
Wrapped(stage, e) ==
    CASE stage = "downloading" -> e
      [] stage = "transcribing" -> "Failed to transcribe video: " \o e
      [] stage = "analyzing" -> "Failed to identify highlights: " \o e
      [] stage = "generating_clips" -> "Failed to generate clips: " \o e

EntryKwargsKeepsProgress(stage) ==
    << <<"status", "processing">>, <<"current_step", stage>>,
       <<"message", EntryMessage(stage)>> >>

\* lines 58, 179, 198, 217
EntryKwargs(stage) ==
    << <<"status", "processing">>, <<"current_step", stage>>,
       <<"progress", StageFloor(stage)>>, <<"message", EntryMessage(stage)>> >>

\* lines 167-174, 186-193, 205-212, 224-231
FailKwargsBareText(stage, e) ==
    << <<"status", "failed">>, <<"current_step", stage>>,
       <<"progress", StageFloor(stage)>>, <<"message", FailMessage(stage)>>,
       <<"error", e>> >>

FailKwargsNoError(stage, e) ==
    << <<"status", "failed">>, <<"current_step", stage>>,
       <<"progress", StageFloor(stage)>>, <<"message", FailMessage(stage)>> >>

FailKwargsWithClips(stage, e) ==
    << <<"status", "failed">>, <<"current_step", stage>>,
       <<"progress", StageFloor(stage)>>, <<"message", FailMessage(stage)>>,
       <<"error", ErrorPrefix(stage) \o Wrapped(stage, e)>>,
       <<"clips", <<[title |-> "partial", start_time |-> 0, end_time |-> 0,
                    duration |-> 0]>> >> >>

FailKwargs(stage, e) ==
    << <<"status", "failed">>, <<"current_step", stage>>,
       <<"progress", StageFloor(stage)>>, <<"message", FailMessage(stage)>>,
       <<"error", ErrorPrefix(stage) \o Wrapped(stage, e)>> >>

\* lines 235-242
CompletedKwargsNeedsClips(clips) ==
    IF clips = <<>>
    THEN << <<"status", "failed">>, <<"current_step", "generating_clips">>,
            <<"progress", 60>>, <<"message", "Failed to generate clips">>,
            <<"error", "Clip generation error: no clips">> >>
    ELSE << <<"status", "completed">>, <<"current_step", "completed">>,
            <<"progress", 100>>, <<"message", "Processing completed">>,
            <<"clips", clips>> >>

CompletedKwargs(clips) ==
    << <<"status", "completed">>, <<"current_step", "completed">>,
       <<"progress", 100>>, <<"message", "Processing completed">>,
       <<"clips", clips>> >>

\* lines 248-255, and handle_task_result (main.py 107-114)
OuterFailKwargs(e) ==
    << <<"status", "failed">>, <<"current_step", "processing">>,
       <<"progress", 0>>, <<"message", "Processing failed">>,
       <<"error", "Processing error: " \o e>> >>

\* main.py 122-129
StartFailKwargs(e) ==
    << <<"status", "failed">>, <<"current_step", "starting">>,
       <<"progress", 0>>, <<"message", "Failed to start processing">>,
       <<"error", "Error: " \o e>> >>

(***************************************************************************)
(* A status write made inside the outer try of process_youtube_video, then *)
(* the task going on at nextpc.  An exception of the write is caught at    *)
(* line 246, whose own write may raise out of the task.                    *)
(***************************************************************************)
PipeWrite(js, id, kwargs, now, nextpc) ==
    LET r == update_status(js, id, kwargs, now)
        r2 == update_status(js, id, OuterFailKwargs(r.raised), now + 1)
    IN  IF r.raised = None
        THEN [jobs |-> r.jobs, pc |-> nextpc, ticks |-> 1,
              log |-> <<"update_status">>]
        ELSE IF r2.raised = None
        THEN [jobs |-> r2.jobs, pc |-> "returned", ticks |-> 2,
              log |-> <<"update_status", "update_status">>]
        ELSE [jobs |-> js, pc |-> "raised", ticks |-> 2,
              log |-> <<"update_status", "update_status">>]

\* the except clause of a stage: the failed status, then return
StageFailedRetries(js, id, stage, e, now) ==
    PipeWrite(js, id, FailKwargs(stage, e), now, stage)

StageFailedFallsThrough(js, id, stage, e, now) ==
    PipeWrite(js, id, FailKwargs(stage, e), now,
              CASE stage = "downloading" -> "transcribing"
                [] stage = "transcribing" -> "analyzing"
                [] stage = "analyzing" -> "generating_clips"
                [] stage = "generating_clips" -> "returned")

StageFailed(js, id, stage, e, now) ==
    PipeWrite(js, id, FailKwargs(stage, e), now, "returned")

\* the next stage's entry write, then its collaborator is invoked
StageEntered(js, id, stage, now) ==
    PipeWrite(js, id, EntryKwargs(stage), now, stage)

\* the log of a step in which the stage's except clause caught an exception
Caught(stage, w) == [w EXCEPT !.log = <<"except " \o stage>> \o @]

Collaborator(stage) ==
    CASE stage = "downloading" -> "fetch"
      [] stage = "transcribing" -> "transcribe"
      [] stage = "analyzing" -> "select"
      [] stage = "generating_clips" -> "generate_clips"

\* Where the task of a job gives the event loop to other tasks and handlers:
\* the download waits in asyncio.sleep (line 128); transcribe_video,
\* identify_highlights, generate_clips and extract_srt_segment hold no await
\* that suspends, so from the end of the download the task runs to its return.
HoldsLoop(p) == p \in {"transcribing", "analyzing", "generating_clips"}

\* the step w of job j's task; its collaborator call, if it enters a stage
Advance(j, w) ==
    /\ jobs' = w.jobs
    /\ loop' = IF HoldsLoop(w.pc) THEN j ELSE Free
    /\ clock' = clock + w.ticks
    /\ pc' = [pc EXCEPT ![j] = w.pc]
    /\ log' = [log EXCEPT ![j] =
                 @ \o w.log \o
                 (IF w.pc \in {"downloading", "transcribing", "analyzing",
                               "generating_clips"}
                  THEN <<Collaborator(w.pc)>> ELSE <<>>)]

(***************************************************************************)
(* Actions of the pipeline                                                 *)
(***************************************************************************)
\* main.py 76-130: POST /process, with a fresh uuid4 as job id
ProcessVideo(j) ==
    /\ loop = Free
    /\ pc[j] = "none"
    /\ ~job_exists(jobs, j)
    /\ \E url_ok \in BOOLEAN :
         LET c == create_job(jobs, j, clock)
             f == update_status(c.jobs, j,
                      StartFailKwargs("URL is not a valid YouTube URL"),
                      clock + 1)
         IN  IF url_ok
             THEN /\ jobs' = c.jobs
                  /\ clock' = clock + 1
                  /\ pc' = [pc EXCEPT ![j] = "created"]
                  /\ log' = [log EXCEPT ![j] = @ \o <<"create_job", "create_task">>]
             ELSE /\ jobs' = f.jobs
                  /\ clock' = clock + 2
                  /\ pc' = [pc EXCEPT ![j] = "rejected"]
                  /\ log' = [log EXCEPT ![j] = @ \o <<"create_job", "update_status">>]
    /\ UNCHANGED <<disk, last, highlights, idx, generated_clips, loop, threadVars, sideVars>>

\* line 58: the task starts, the download begins
TaskStart(j) ==
    /\ loop = Free
    /\ pc[j] = "created"
    /\ Advance(j, StageEntered(jobs, j, "downloading", clock))
    /\ UNCHANGED <<disk, last, highlights, idx, generated_clips, threadVars, sideVars>>

\* lines 61-179: the download ends
DownloadDone(j) ==
    /\ loop = Free
    /\ pc[j] = "downloading"
    /\ \/ Advance(j, StageEntered(jobs, j, "transcribing", clock))
       \/ \E e \in ExcTexts :
            Advance(j, Caught("downloading", StageFailed(jobs, j, "downloading", e, clock)))
    /\ UNCHANGED <<disk, last, highlights, idx, generated_clips, threadVars, sideVars>>

\* lines 181-198: transcribe_video ends
TranscribeDone(j) ==
    /\ loop = j
    /\ pc[j] = "transcribing"
    /\ \/ Advance(j, StageEntered(jobs, j, "analyzing", clock))
       \/ \E e \in ExcTexts :
            Advance(j, Caught("transcribing", StageFailed(jobs, j, "transcribing", e, clock)))
    /\ UNCHANGED <<disk, last, highlights, idx, generated_clips, threadVars, sideVars>>

\* lines 200-217: identify_highlights ends
AnalyzeDone(j) ==
    /\ loop = j
    /\ pc[j] = "analyzing"
    /\ \/ \E raw \in SelectorAnswers :
            IF ConversionRaises(raw)
            THEN /\ Advance(j, Caught("analyzing",
                        StageFailed(jobs, j, "analyzing", "ValueError", clock)))
                 /\ UNCHANGED <<highlights, idx, generated_clips>>
            ELSE /\ Advance(j, StageEntered(jobs, j, "generating_clips", clock))
                 /\ highlights' = [highlights EXCEPT ![j] =
                       [i \in 1..Len(raw) |-> ConvertHighlight(raw[i])]]
                 /\ idx' = [idx EXCEPT ![j] = 1]
                 /\ generated_clips' = [generated_clips EXCEPT ![j] = <<>>]
       \/ /\ \E e \in ExcTexts :
               Advance(j, Caught("analyzing", StageFailed(jobs, j, "analyzing", e, clock)))
          /\ UNCHANGED <<highlights, idx, generated_clips>>
    /\ UNCHANGED <<disk, last, threadVars, sideVars>>

\* generate_clips 524-588: one turn of the loop, the renderer's answer
next_idxRetries(i, outcome) == IF outcome = "ok" THEN i + 1 ELSE i

next_idx(i, outcome) == i + 1

kept_clipsAlways(clips, h, outcome) == Append(clips, ClipInfo(h))

kept_clips(clips, h, outcome) ==
    IF outcome = "ok" THEN Append(clips, ClipInfo(h)) ELSE clips

RenderDone(j) ==
    /\ loop = j
    /\ pc[j] = "generating_clips"
    /\ idx[j] <= Len(highlights[j])
    /\ \E outcome \in RenderOutcomes :
         IF outcome = "Exception"
         THEN /\ \E e \in ExcTexts :
                   Advance(j, [Caught("generating_clips",
                                 StageFailed(jobs, j, "generating_clips", e, clock))
                               EXCEPT !.log = <<"render Exception">> \o @])
              /\ UNCHANGED <<idx, generated_clips>>
         ELSE /\ generated_clips' = [generated_clips EXCEPT ![j] =
                     kept_clips(@, highlights[j][idx[j]], outcome)]
              /\ idx' = [idx EXCEPT ![j] = next_idx(@, outcome)]
              /\ log' = [log EXCEPT ![j] = Append(@, "render " \o outcome)]
              /\ UNCHANGED <<jobs, clock, pc, loop>>
    /\ UNCHANGED <<disk, last, highlights, threadVars, sideVars>>

\* lines 594, 221, 235-244: generate_clips returns, the job is completed
Complete(j) ==
    /\ loop = j
    /\ pc[j] = "generating_clips"
    /\ idx[j] > Len(highlights[j])
    /\ Advance(j, PipeWrite(jobs, j, CompletedKwargs(generated_clips[j]),
                            clock, "returned"))
    /\ UNCHANGED <<disk, last, highlights, idx, generated_clips, threadVars, sideVars>>

\* main.py 102-117: the task's done callback
handle_task_result(j) ==
    /\ loop = Free
    /\ pc[j] \in {"returned", "raised"}
    /\ IF pc[j] = "raised"
       THEN /\ jobs' = update_status(jobs, j, OuterFailKwargs("KeyError"), clock).jobs
            /\ clock' = clock + 1
            /\ log' = [log EXCEPT ![j] = @ \o <<"except task", "update_status">>]
       ELSE UNCHANGED <<jobs, clock, log>>
    /\ pc' = [pc EXCEPT ![j] = "done"]
    /\ UNCHANGED <<disk, last, highlights, idx, generated_clips, loop, threadVars, sideVars>>

(***************************************************************************)
(* Spec: the pipeline                                                      *)
(***************************************************************************)
Threads == 1..NThreads
EmptyMap == [k \in {} |-> None]
NoCall == [op |-> "none", id |-> "", args |-> <<>>, raised |-> None,
           value |-> EmptyMap]
NoClip == [title |-> "", start_time |-> 0, end_time |-> 0, duration |-> 0]
IdleCall == [op |-> "none", id |-> "", kwargs |-> <<>>, clip_info |-> NoClip]

StoreInit ==
    /\ jobs = EmptyMap
    /\ clock = 1
    /\ disk = EmptyMap
    /\ last = NoCall

PipeIdle ==
    /\ pc = [j \in JobIds |-> "none"]
    /\ highlights = [j \in JobIds |-> <<>>]
    /\ idx = [j \in JobIds |-> 0]
    /\ generated_clips = [j \in JobIds |-> <<>>]
    /\ log = [j \in JobIds |-> <<>>]
    /\ loop = Free

ThreadsIdle ==
    /\ tpc = [t \in Threads |-> "idle"]
    /\ tcall = [t \in Threads |-> IdleCall]
    /\ tpos = [t \in Threads |-> 0]
    /\ lock = NoThread

\* no get_status has returned, extract_srt_segment is not running, no time
\* string is being converted, no download child has been started
NoSnap == [id |-> "", value |-> EmptyMap, live |-> FALSE]
NoSrt == [pc |-> "none"]
NoTc == [pc |-> "none"]
NoChild ==
    [pc |-> "idle", child |-> "none", out |-> 0, err |-> 0,
     left_out |-> 0, left_err |-> 0, stdout_line |-> FALSE]
NoDl == [j \in JobIds |-> NoChild]
SideIdle == snap = NoSnap /\ srt = NoSrt /\ tc = NoTc /\ dl = NoDl

Init == StoreInit /\ PipeIdle /\ ThreadsIdle /\ SideIdle

Next ==
    \E j \in JobIds :
        \/ ProcessVideo(j)
        \/ TaskStart(j)
        \/ DownloadDone(j)
        \/ TranscribeDone(j)
        \/ AnalyzeDone(j)
        \/ RenderDone(j)
        \/ Complete(j)
        \/ handle_task_result(j)

Spec == Init /\ [][Next]_vars

(***************************************************************************)
(* StoreSpec: any sequence of StatusManager calls, by any caller.  A call  *)
(* is one step: its body runs under the lock.                              *)
(***************************************************************************)
ClipA == [title |-> "A", start_time |-> 0, end_time |-> 3000, duration |-> 3000]
ClipB == [title |-> "B", start_time |-> 5000, end_time |-> 9000, duration |-> 4000]
StoreClips == {ClipA, ClipB}

\* keyword arguments a caller may pass to update_status
StoreKwargs ==
    { EntryKwargs("transcribing"),
      << <<"progress", 40>> >>,
      << <<"clips", <<ClipA>> >> >>,
      << <<"bogus", 1>> >> }

StoreErrors == {"boom"}

Called(op, id, args, raised, value) ==
    [op |-> op, id |-> id, args |-> args, raised |-> raised, value |-> value]

\* the effect r of call op(id, args) on the store
Effect(op, id, args, r) ==
    /\ clock <= MaxCalls
    /\ jobs' = r.jobs
    /\ clock' = clock + 1
    /\ last' = Called(op, id, args, r.raised, EmptyMap)
    /\ UNCHANGED <<disk, pipeVars, threadVars, sideVars>>

Call_create_job(id) ==
    Effect("create_job", id, <<>>, create_job(jobs, id, clock))

Call_update_status(id) ==
    \E kwargs \in StoreKwargs :
        Effect("update_status", id, kwargs, update_status(jobs, id, kwargs, clock))

Call_add_clip(id) ==
    \E clip_info \in StoreClips :
        Effect("add_clip", id, <<clip_info>>, add_clip(jobs, id, clip_info))

Call_mark_completed(id) ==
    Effect("mark_completed", id, <<>>, mark_completed(jobs, id, clock))

Call_mark_failed(id) ==
    \E error_message \in StoreErrors :
        Effect("mark_failed", id, <<error_message>>,
               mark_failed(jobs, id, error_message, clock))

Call_get_status(id) ==
    /\ clock <= MaxCalls
    /\ clock' = clock + 1
    /\ last' = Called("get_status", id, <<>>, get_status(jobs, id).raised,
                      get_status(jobs, id).value)
    /\ UNCHANGED <<jobs, disk, pipeVars, threadVars, sideVars>>

Call_save_to_disk ==
    /\ clock <= MaxCalls
    /\ disk' = save_to_disk(jobs, disk)
    /\ clock' = clock + 1
    /\ last' = Called("save_to_disk", "", <<>>, None, EmptyMap)
    /\ UNCHANGED <<jobs, pipeVars, threadVars, sideVars>>

Call_load_from_disk ==
    /\ clock <= MaxCalls
    /\ jobs' = load_from_disk(jobs, disk)
    /\ clock' = clock + 1
    /\ last' = Called("load_from_disk", "", <<>>, None, EmptyMap)
    /\ UNCHANGED <<disk, pipeVars, threadVars, sideVars>>

StoreNext ==
    \/ \E id \in JobIds :
          \/ Call_create_job(id)
          \/ Call_update_status(id)
          \/ Call_add_clip(id)
          \/ Call_mark_completed(id)
          \/ Call_mark_failed(id)
          \/ Call_get_status(id)
    \/ Call_save_to_disk
    \/ Call_load_from_disk

StoreSpec == Init /\ [][StoreNext]_vars

(***************************************************************************)
(* PersistSpec: StoreSpec with restarts.  The process starts again with a  *)
(* new StatusManager (an empty jobs map) and restores it from the status   *)
(* directory.                                                              *)
(***************************************************************************)
Call_restore ==
    /\ clock <= MaxCalls
    /\ jobs' = load_from_disk(EmptyMap, disk)
    /\ clock' = clock + 1
    /\ last' = Called("restore", "", <<>>, None, EmptyMap)
    /\ UNCHANGED <<disk, pipeVars, threadVars, sideVars>>

PersistNext == StoreNext \/ Call_restore

PersistSpec == Init /\ [][PersistNext]_vars

(***************************************************************************)
(* SharedSpec: the one StatusManager of main.py used by the pipelines and, *)
(* for the jobs no pipeline drives, by any other caller.                   *)
(***************************************************************************)
Outside(id) ==
    /\ pc[id] = "none"
    /\ \/ ~job_exists(jobs, id) /\ Call_create_job(id)
       \/ job_exists(jobs, id) /\ Call_update_status(id)
       \/ job_exists(jobs, id) /\ Call_add_clip(id)
       \/ job_exists(jobs, id) /\ Call_mark_completed(id)
       \/ job_exists(jobs, id) /\ Call_mark_failed(id)

SharedNext == Next \/ \E id \in JobIds : Outside(id)

SharedSpec == Init /\ [][SharedNext]_vars

(***************************************************************************)
(* ThreadSpec: threads inside StatusManager calls on a store that holds    *)
(* job "a".  A step is the existence test (made without the lock), the     *)
(* acquisition of the lock, or one dictionary access under the lock; the   *)
(* lock is released by the step that leaves the with block.                *)
(***************************************************************************)
ThreadClip(t) ==
    [title |-> "clip" \o ToString(t), start_time |-> 0, end_time |-> 3000,
     duration |-> 3000]

ThreadKwargs ==
    { << <<"status", "processing">>, <<"progress", 20>> >>,
      << <<"message", "m">>, <<"error", "e">> >>,
      << <<"progress", 40>> >> }

Call(op, id, kwargs, clip_info) ==
    [op |-> op, id |-> id, kwargs |-> kwargs, clip_info |-> clip_info]

\* the calls thread t may make
ThreadCalls(t) ==
    {Call("update_status", "a", kw, NoClip) : kw \in ThreadKwargs}
        \cup { Call("add_clip", "a", <<>>, ThreadClip(t)),
               Call("get_status", "a", <<>>, NoClip),
               Call("create_job", "b", <<>>, NoClip),
               Call("update_status", "b", << <<"progress", 40>> >>, NoClip) }

\* threading.Lock.acquire
\* a lock that excludes nobody: every with block is entered at once
CanAcquireAlways(holder, t) == TRUE

CanAcquire(holder, t) == holder = NoThread

T_Begin(t) ==
    /\ tpc[t] = "idle"
    /\ \E c \in ThreadCalls(t) :
         /\ tcall' = [tcall EXCEPT ![t] = c]
         /\ tpc' = [tpc EXCEPT ![t] =
                      IF c.op = "create_job" THEN "acquire" ELSE "check"]
    /\ UNCHANGED <<jobs, clock, disk, last, pipeVars, sideVars, tpos, lock>>

\* lines 40, 57, 73: job_exists, read without the lock
T_Check(t) ==
    /\ tpc[t] = "check"
    /\ tpc' = [tpc EXCEPT ![t] =
                 IF job_exists(jobs, tcall[t].id) THEN "acquire" ELSE "done"]
    /\ UNCHANGED <<jobs, clock, disk, last, pipeVars, sideVars, tcall, tpos, lock>>

\* lines 22, 44, 61, 77: with self._lock
T_Acquire(t) ==
    /\ tpc[t] = "acquire"
    /\ CanAcquire(lock, t)
    /\ lock' = t
    /\ tpc' = [tpc EXCEPT ![t] = "body"]
    /\ tpos' = [tpos EXCEPT ![t] = 1]
    /\ UNCHANGED <<jobs, clock, disk, last, pipeVars, sideVars, tcall>>

\* the with block is left: by its end, or by a KeyError
Leave(t, how) ==
    /\ tpc' = [tpc EXCEPT ![t] = how]
    /\ lock' = IF lock = t THEN NoThread ELSE lock

\* lines 45-47: one turn of the loop over kwargs
T_Write(t) ==
    /\ tpc[t] = "body" /\ tcall[t].op = "update_status"
    /\ tpos[t] <= Len(tcall[t].kwargs)
    /\ IF tcall[t].id \in DOMAIN jobs
       THEN /\ jobs' = [jobs EXCEPT ![tcall[t].id] =
                          SetKey(@, tcall[t].kwargs[tpos[t]])]
            /\ tpos' = [tpos EXCEPT ![t] = @ + 1]
            /\ UNCHANGED <<tpc, lock>>
       ELSE /\ Leave(t, "raised")
            /\ UNCHANGED <<jobs, tpos>>
    /\ UNCHANGED <<clock, disk, last, pipeVars, sideVars, tcall>>

\* line 49: update_time, and the lock is released
T_Touch(t) ==
    /\ tpc[t] = "body" /\ tcall[t].op = "update_status"
    /\ tpos[t] > Len(tcall[t].kwargs)
    /\ IF tcall[t].id \in DOMAIN jobs
       THEN /\ jobs' = [jobs EXCEPT ![tcall[t].id] = Touch(@, clock)]
            /\ clock' = clock + 1
            /\ Leave(t, "done")
       ELSE /\ Leave(t, "raised")
            /\ UNCHANGED <<jobs, clock>>
    /\ UNCHANGED <<disk, last, pipeVars, sideVars, tcall, tpos>>

\* lines 62-65
T_Append(t) ==
    /\ tpc[t] = "body" /\ tcall[t].op = "add_clip"
    /\ IF tcall[t].id \in DOMAIN jobs
       THEN /\ jobs' = [jobs EXCEPT ![tcall[t].id] =
                          AppendClip(@, tcall[t].clip_info)]
            /\ Leave(t, "done")
       ELSE /\ Leave(t, "raised")
            /\ UNCHANGED jobs
    /\ UNCHANGED <<clock, disk, last, pipeVars, sideVars, tcall, tpos>>

\* line 78
T_Copy(t) ==
    /\ tpc[t] = "body" /\ tcall[t].op = "get_status"
    /\ IF tcall[t].id \in DOMAIN jobs
       THEN /\ last' = Called("get_status", tcall[t].id, <<>>, None,
                              jobs[tcall[t].id])
            /\ Leave(t, "done")
       ELSE /\ last' = Called("get_status", tcall[t].id, <<>>, "KeyError",
                              EmptyMap)
            /\ Leave(t, "raised")
    /\ UNCHANGED <<jobs, clock, disk, pipeVars, sideVars, tcall, tpos>>

\* lines 23-33
T_Create(t) ==
    /\ tpc[t] = "body" /\ tcall[t].op = "create_job"
    /\ jobs' = Put(jobs, tcall[t].id, NewJob(tcall[t].id, clock))
    /\ clock' = clock + 1
    /\ Leave(t, "done")
    /\ UNCHANGED <<disk, last, pipeVars, sideVars, tcall, tpos>>

ThreadInit ==
    /\ jobs = create_job(EmptyMap, "a", 1).jobs
    /\ clock = 2
    /\ disk = EmptyMap
    /\ last = NoCall
    /\ PipeIdle
    /\ ThreadsIdle
    /\ SideIdle

ThreadNext ==
    \E t \in Threads :
        \/ T_Begin(t)
        \/ T_Check(t)
        \/ T_Acquire(t)
        \/ T_Write(t)
        \/ T_Touch(t)
        \/ T_Append(t)
        \/ T_Copy(t)
        \/ T_Create(t)

ThreadSpec == ThreadInit /\ [][ThreadNext]_vars

(***************************************************************************)
(* RaceSpec: ThreadSpec with threads that also call load_from_disk, on a   *)
(* status directory that holds the saved record of job "b", or of both     *)
(* jobs.                                                                   *)
(***************************************************************************)
Saved(id) ==
    [NewJob(id, 0) EXCEPT !.status = "processing",
                          !.current_step = "downloading",
                          !.message = "Downloading video"]

StatusDirs == {[k \in ids |-> Saved(k)] : ids \in {{"b"}, {"a", "b"}}}

\* load_from_disk makes no existence test: it goes for the lock
T_BeginLoad(t) ==
    /\ tpc[t] = "idle"
    /\ tcall' = [tcall EXCEPT ![t] = Call("load_from_disk", "", <<>>, NoClip)]
    /\ tpc' = [tpc EXCEPT ![t] = "acquire"]
    /\ UNCHANGED <<jobs, clock, disk, last, pipeVars, sideVars, tpos, lock>>

\* lines 142-152: every file's record is assigned to its key, under the lock
T_Load(t) ==
    /\ tpc[t] = "body" /\ tcall[t].op = "load_from_disk"
    /\ jobs' = load_from_disk(jobs, disk)
    /\ Leave(t, "done")
    /\ UNCHANGED <<clock, disk, last, pipeVars, sideVars, tcall, tpos>>

RaceInit ==
    /\ jobs = create_job(EmptyMap, "a", 1).jobs
    /\ clock = 2
    /\ disk \in StatusDirs
    /\ last = NoCall
    /\ PipeIdle
    /\ ThreadsIdle
    /\ SideIdle

RaceNext == ThreadNext \/ \E t \in Threads : T_BeginLoad(t) \/ T_Load(t)

RaceSpec == RaceInit /\ [][RaceNext]_vars

(***************************************************************************)
(* SnapSpec: a caller holds the dictionary get_status returned.            *)
(* dict.copy() copies the keys of the job's dictionary and not the values: *)
(* snap.live says that snap.value["clips"] and the job's "clips" are one   *)
(* list object, which they are until either key is given another list.     *)
(***************************************************************************)
\* line 78: self.jobs[job_id].copy(), or {} for an unknown id
copy(js, id) ==
    [id |-> id, value |-> get_status(js, id).value,
     live |-> job_exists(js, id) /\ "clips" \in DOMAIN js[id]]

\* the calls that bind the job's "clips" key to another list object
Rebinds(op, args) ==
    \/ op = "create_job"
    \/ op = "update_status" /\ \E i \in 1..Len(args) : args[i][1] = "clips"

\* the caller's dictionary after the store call op(id, args) left js2
Seen(sn, op, id, args, js2) ==
    IF ~sn.live \/ id # sn.id THEN sn
    ELSE IF Rebinds(op, args) THEN [sn EXCEPT !.live = FALSE]
    ELSE [sn EXCEPT !.value.clips = js2[id].clips]

S_Call(op, id, args, r) ==
    /\ clock <= MaxCalls
    /\ jobs' = r.jobs
    /\ clock' = clock + 1
    /\ last' = Called(op, id, args, r.raised, EmptyMap)
    /\ snap' = Seen(snap, op, id, args, r.jobs)
    /\ UNCHANGED <<disk, pipeVars, threadVars, srt, tc, dl>>

S_create_job(id) ==
    S_Call("create_job", id, <<>>, create_job(jobs, id, clock))

S_update_status(id) ==
    \E kwargs \in StoreKwargs :
        S_Call("update_status", id, kwargs, update_status(jobs, id, kwargs, clock))

S_add_clip(id) ==
    \E clip_info \in StoreClips :
        S_Call("add_clip", id, <<clip_info>>, add_clip(jobs, id, clip_info))

S_get_status(id) ==
    /\ clock <= MaxCalls
    /\ snap' = copy(jobs, id)
    /\ clock' = clock + 1
    /\ last' = Called("get_status", id, <<>>, None, EmptyMap)
    /\ UNCHANGED <<jobs, disk, pipeVars, threadVars, srt, tc, dl>>

\* the caller: snapshot["clips"].append(clip_info)
Caller_append ==
    /\ "clips" \in DOMAIN snap.value
    /\ Len(snap.value.clips) < MaxClips
    /\ \E clip_info \in StoreClips :
         /\ snap' = [snap EXCEPT !.value.clips = Append(@, clip_info)]
         /\ jobs' = IF snap.live
                    THEN [jobs EXCEPT ![snap.id].clips = Append(@, clip_info)]
                    ELSE jobs
    /\ UNCHANGED <<clock, disk, last, pipeVars, threadVars, srt, tc, dl>>

\* the caller: snapshot["progress"] = 99, or snapshot["clips"] = []
Caller_assign ==
    /\ "clips" \in DOMAIN snap.value
    /\ \/ snap' = [snap EXCEPT !.value.progress = 99]
       \/ snap' = [snap EXCEPT !.value.clips = <<>>, !.live = FALSE]
    /\ UNCHANGED <<jobs, clock, disk, last, pipeVars, threadVars, srt, tc, dl>>

SnapNext ==
    \/ \E id \in JobIds :
          \/ S_create_job(id)
          \/ S_update_status(id)
          \/ S_add_clip(id)
          \/ S_get_status(id)
    \/ Caller_append
    \/ Caller_assign

SnapSpec == Init /\ [][SnapNext]_vars

(***************************************************************************)
(* Caption files (processor.py).  A time stamp is the sequence of its      *)
(* ':'-separated parts, as for time_to_seconds.  A block of a caption file *)
(* is its number of lines, the two stamps of its second line, and its text *)
(* (the lines from the third on).                                          *)
(***************************************************************************)
max(a, b) == IF a >= b THEN a ELSE b
min(a, b) == IF a <= b THEN a ELSE b

\* line 681, int((seconds - int(seconds)) * 1000), is binary floating point
\* arithmetic: of the moments converted here, these are the ones whose
\* nearest double lies below the decimal value and whose fraction times 1000
\* stays below the whole millisecond, so that int() cuts one millisecond off
\* (1.001 s -> 000, 2.3 s -> 299, 61.001 s -> 000, 62.3 s -> 299).
CutShort == {1001, 2300, 61001, 62300}

\* lines 674-683: "HH:MM:SS,mmm", the milliseconds cut and not rounded
seconds_to_srt_time(ms) ==
    LET seconds == ms % 60000
        milliseconds == IF ms \in CutShort THEN (seconds % 1000) - 1
                        ELSE seconds % 1000
    IN  <<IntPart(ms \div 3600000), IntPart((ms % 3600000) \div 60000),
          CommaPart((seconds \div 1000) * 1000 + milliseconds)>>

\* lines 685-693: "HH:MM:SS.ss", the seconds rounded to two decimals
format_time(ms) ==
    <<IntPart(ms \div 3600000), IntPart((ms % 3600000) \div 60000),
      DecPart((((ms % 60000) + 5) \div 10) * 10)>>

\* the moment a stamp of three numeric parts denotes, in milliseconds
StampMs(p) == p[1].v * 3600000 + p[2].v * 60000 + p[3].v

Block(n, start, end, text) ==
    [lines |-> n, start |-> start, end |-> end, text |-> text]

\* transcribe_video 407-420: the block written for a Whisper segment
SegmentBlock(start_time, end_time) ==
    Block(3, format_time(start_time), format_time(end_time), "")

\* a block of a standard SubRip file
SrtBlock(start_time, end_time) ==
    Block(3, seconds_to_srt_time(start_time), seconds_to_srt_time(end_time), "")

\* a block of an index and a time line only; a block whose time line is not
\* a time range; the one block re.split makes of an empty file
ShortBlock == Block(2, seconds_to_srt_time(0), seconds_to_srt_time(2000), "")
NoRangeBlock == Block(3, <<BadPart>>, <<BadPart>>, "")
EmptyBlock == Block(1, <<BadPart>>, <<BadPart>>, "")

\* line 605: re.split(r'\n\s*\n', srt_content.strip())
subtitle_blocks(srt_content) ==
    IF srt_content = <<>> THEN <<EmptyBlock>> ELSE srt_content

\* line 617: \d+:\d+:\d+,\d+ matches a stamp written with a comma only
StampMatches(p) ==
    /\ Len(p) = 3
    /\ p[1].kind = "int" /\ p[2].kind = "int" /\ p[3].kind = "cdec"

time_match(block) == StampMatches(block.start) /\ StampMatches(block.end)

\* lines 622-623: .replace(',', '.')
replace_comma(p) ==
    [i \in 1..Len(p) |-> IF p[i].kind = "cdec" THEN DecPart(p[i].v) ELSE p[i]]

sub_start(block) == time_to_seconds(replace_comma(block.start)).value
sub_end(block) == time_to_seconds(replace_comma(block.end)).value

\* line 626
outside(s_start, s_end, start_seconds, end_seconds) ==
    s_end < start_seconds \/ s_start > end_seconds

\* lines 630-631
adjusted_start(s_start, start_seconds) == max(0, s_start - start_seconds)

adjusted_endUnclamped(s_end, start_seconds, end_seconds) ==
    s_end - start_seconds

adjusted_end(s_end, start_seconds, end_seconds) ==
    min(end_seconds - start_seconds, s_end - start_seconds)

\* lines 634-638
new_block(block, new_index, start_seconds, end_seconds) ==
    [index |-> new_index,
     start |-> seconds_to_srt_time(adjusted_start(sub_start(block), start_seconds)),
     end |-> seconds_to_srt_time(
                 adjusted_end(sub_end(block), start_seconds, end_seconds)),
     text |-> block.text]

\* lines 613-614 and 619-620: continue
skipRaises(st) == [st EXCEPT !.pc = "except"]

skip(st) == [st EXCEPT !.i = @ + 1]

\* lines 611-641: one turn of the loop over subtitle_blocks
Turn(st) ==
    LET block == st.subtitle_blocks[st.i]
    IN  IF block.lines < 3 THEN skip(st)
        ELSE IF ~time_match(block) THEN skip(st)
        ELSE IF outside(sub_start(block), sub_end(block),
                        st.start_seconds, st.end_seconds)
        THEN [st EXCEPT !.i = @ + 1]
        ELSE [st EXCEPT
                !.relevant_blocks =
                    Append(@, new_block(block, st.new_index,
                                        st.start_seconds, st.end_seconds)),
                !.new_index = @ + 1,
                !.i = @ + 1]

\* the loop from st to its end
RECURSIVE Run(_)
Run(st) ==
    IF st.pc # "loop" \/ st.i > Len(st.subtitle_blocks) THEN st
    ELSE Run(Turn(st))

(***************************************************************************)
(* SrtSpec: one call extract_srt_segment(srt_path, start_seconds,          *)
(* end_seconds, output_path).  The file at srt_path is one transcribe_video*)
(* wrote from Whisper segments, or a SubRip file which may hold a block of *)
(* two lines or a block without a time range; times are in milliseconds    *)
(* and are such that binary floating point holds them exactly.             *)
(***************************************************************************)
CueTimes == {0, 2000, 2500, 5000, 7000}
WindowTimes == {0, 2500, 3000, 5000}

Segments == {<<a, b>> \in CueTimes \X CueTimes : a <= b}
WrittenBlocks == {SegmentBlock(c[1], c[2]) : c \in Segments}
SubRipBlocks ==
    {SrtBlock(c[1], c[2]) : c \in Segments} \cup {ShortBlock, NoRangeBlock}

IsCue(block) == block.lines >= 3 /\ Len(block.start) = 3 /\ Len(block.end) = 3

\* time-coded blocks come in the order of their start times
Ordered(track) ==
    \A i, j \in 1..Len(track) :
        (i < j /\ IsCue(track[i]) /\ IsCue(track[j]))
            => StampMs(track[i].start) <= StampMs(track[j].start)

\* the text of a block names its place in the file
Numbered(track) ==
    [i \in 1..Len(track) |-> [track[i] EXCEPT !.text = "text" \o ToString(i)]]

Files(blocks) ==
    UNION {{Numbered(t) : t \in {u \in [1..k -> blocks] : Ordered(u)}} :
             k \in 0..MaxCues}

SrtFiles == Files(WrittenBlocks) \cup Files(SubRipBlocks)

SrtCall(srt_content, start_seconds, end_seconds) ==
    [pc |-> "open", srt_content |-> srt_content,
     start_seconds |-> start_seconds, end_seconds |-> end_seconds,
     read_ok |-> FALSE, subtitle_blocks |-> <<>>, i |-> 0,
     relevant_blocks |-> <<>>, new_index |-> 0,
     written |-> FALSE, output |-> <<>>]

SrtInit ==
    /\ StoreInit /\ PipeIdle /\ ThreadsIdle
    /\ snap = NoSnap
    /\ tc = NoTc
    /\ dl = NoDl
    /\ srt \in {SrtCall(f, s, e) : f \in SrtFiles, s \in WindowTimes,
                                  e \in WindowTimes}

\* lines 652-654: the handler writes an empty file and returns output_path
except_handler(st) ==
    [st EXCEPT !.pc = "returned", !.written = TRUE, !.output = <<>>]

\* lines 601-609: the file is read, or open() raises
Srt_Read ==
    /\ srt.pc = "open"
    /\ \/ srt' = [srt EXCEPT !.pc = "loop", !.read_ok = TRUE,
                             !.subtitle_blocks = subtitle_blocks(srt.srt_content),
                             !.i = 1, !.new_index = 1]
       \/ srt' = [srt EXCEPT !.pc = "except"]
    /\ UNCHANGED <<jobs, clock, disk, last, pipeVars, threadVars, snap, tc, dl>>

\* lines 611-641
Srt_Block ==
    /\ srt.pc = "loop"
    /\ srt.i <= Len(srt.subtitle_blocks)
    /\ srt' = Turn(srt)
    /\ UNCHANGED <<jobs, clock, disk, last, pipeVars, threadVars, snap, tc, dl>>

\* lines 643-647: '\n\n'.join(relevant_blocks) is written
Srt_Write ==
    /\ srt.pc = "loop"
    /\ srt.i > Len(srt.subtitle_blocks)
    /\ srt' = [srt EXCEPT !.pc = "returned", !.written = TRUE,
                          !.output = srt.relevant_blocks]
    /\ UNCHANGED <<jobs, clock, disk, last, pipeVars, threadVars, snap, tc, dl>>

\* lines 649-654
Srt_Except ==
    /\ srt.pc = "except"
    /\ srt' = except_handler(srt)
    /\ UNCHANGED <<jobs, clock, disk, last, pipeVars, threadVars, snap, tc, dl>>

SrtNext == Srt_Read \/ Srt_Block \/ Srt_Write \/ Srt_Except

SrtSpec == SrtInit /\ [][SrtNext]_vars

(***************************************************************************)
(* Properties of the pipeline (Spec)                                       *)
(***************************************************************************)
Has(sq, e) == \E i \in 1..Len(sq) : sq[i] = e
Terminal == {"completed", "failed"}
Ended(j) == pc[j] \in {"returned", "done"}
StepChain == <<"starting", "downloading", "transcribing", "analyzing",
               "generating_clips", "completed">>
RenderEvents == {"render ok", "render ffmpeg.Error", "render Exception"}
IsRenderEvent(e) == e \in RenderEvents
RenderLog(j) == SelectSeq(log[j], IsRenderEvent)

C1_Allowed(s, t) ==
    IF s.status \in Terminal
    THEN t.status = s.status /\ t.current_step = s.current_step
    ELSE \/ t.status = s.status /\ t.current_step = s.current_step
         \/ t.status = "failed" /\ t.current_step = s.current_step
         \/ /\ t.status = (IF t.current_step = "completed" THEN "completed"
                                                            ELSE "processing")
            /\ \E i \in 1..(Len(StepChain) - 1) :
                 StepChain[i] = s.current_step /\ StepChain[i + 1] = t.current_step

\* C1: every step of the pipeline leaves a job's (status, current_step) as it
\* is, moves current_step to its successor in starting -> downloading ->
\* transcribing -> analyzing -> generating_clips -> completed (status
\* processing, or completed at the last), or marks a non-terminal job failed
\* with current_step unchanged; a completed or failed job keeps both for ever;
\* a job enters the store at current_step starting.
C1_StepsAlongTheChain ==
    [][ /\ \A j \in DOMAIN jobs :
             j \in DOMAIN jobs' /\ C1_Allowed(jobs[j], jobs'[j])
        /\ \A j \in DOMAIN jobs' \ DOMAIN jobs :
             jobs'[j].current_step = "starting" ]_vars

C1_Witness ==
    \E j, k \in DOMAIN jobs :
        /\ pc[j] = "done" /\ pc[k] = "done"
        /\ jobs[j].status = "completed" /\ jobs[j].current_step = "completed"
        /\ Len(jobs[j].clips) > 0
        /\ jobs[k].status = "failed" /\ jobs[k].current_step = "transcribing"

\* C4: once the except clause of a stage (download, transcribe, analyze,
\* generate clips) has caught its collaborator's failure, the job's status is
\* failed, its error is a non-empty string, and the task has returned: it has
\* not raised, and the done callback found no exception.
C4_FailureRecordedAndReturned ==
    \A j \in JobIds : \A i \in 1..Len(Stages) :
        Has(log[j], "except " \o Stages[i]) =>
            /\ j \in DOMAIN jobs
            /\ jobs[j].status = "failed"
            /\ jobs[j].error \notin {None, ""}
            /\ Ended(j)
            /\ ~Has(log[j], "except task")

C4_Witness ==
    \E j, k \in JobIds :
        /\ Has(log[j], "except generating_clips") /\ pc[j] = "done"
        /\ Has(log[k], "except downloading") /\ pc[k] = "done"
        /\ jobs[k].error = "Download error: "

LaterCalls(i) ==
    {Collaborator(Stages[m]) : m \in (i + 1)..Len(Stages)}
        \cup (IF i < Len(Stages) THEN RenderEvents ELSE {})

\* C5: once a stage's collaborator has failed, the job is failed with
\* current_step the stage that failed, and no collaborator of a later stage
\* (nor the renderer, for a stage before generating_clips) was or is invoked.
C5_FailedAtItsStage ==
    \A j \in JobIds : \A i \in 1..Len(Stages) :
        Has(log[j], "except " \o Stages[i]) =>
            /\ jobs[j].status = "failed"
            /\ jobs[j].current_step = Stages[i]
            /\ \A c \in LaterCalls(i) : ~Has(log[j], c)

C5_Witness ==
    \E j \in JobIds :
        /\ Has(log[j], "except transcribing") /\ pc[j] = "done"
        /\ Has(log[j], "transcribe") /\ ~Has(log[j], "select")

AddClipCalls(n) == [i \in 1..n |-> "add_clip"]
EndsWith(sq, tail) ==
    /\ Len(sq) >= Len(tail)
    /\ SubSeq(sq, Len(sq) - Len(tail) + 1, Len(sq)) = tail

\* C6: when a job's task has returned with status completed, the calls made
\* for it end with one add_clip per clip, then mark_completed, then
\* save_to_disk, and the job's record is on disk.
C6_CompletedThenPersisted ==
    \A j \in JobIds :
        (Ended(j) /\ j \in DOMAIN jobs /\ jobs[j].status = "completed") =>
            /\ EndsWith(log[j], AddClipCalls(Len(jobs[j].clips))
                                  \o <<"mark_completed", "save_to_disk">>)
            /\ j \in DOMAIN disk

SelectedNone(j) == Has(log[j], "generate_clips") /\ highlights[j] = <<>>

\* C7: a job whose selector answered zero highlights is never failed, and
\* when its task has returned it is completed, at current_step completed and
\* progress 100, with no clips.
C7_ZeroHighlightsCompletes ==
    \A j \in JobIds :
        SelectedNone(j) =>
            /\ jobs[j].status # "failed"
            /\ Ended(j) =>
                 /\ jobs[j].status = "completed"
                 /\ jobs[j].current_step = "completed"
                 /\ jobs[j].progress = 100
                 /\ jobs[j].clips = <<>>

C7_Witness ==
    \E j \in JobIds :
        SelectedNone(j) /\ pc[j] = "done" /\ jobs[j].status = "completed"

RECURSIVE Rendered(_, _)
Rendered(hs, outs) ==
    IF hs = <<>> \/ outs = <<>> THEN <<>>
    ELSE (IF Head(outs) = "render ok"
          THEN <<[title |-> Head(hs).title,
                  start_time |-> Head(hs).start_seconds,
                  end_time |-> Head(hs).end_seconds,
                  duration |-> Head(hs).duration]>>
          ELSE <<>>) \o Rendered(Tail(hs), Tail(outs))

\* C8: a render that fails with ffmpeg.Error (the failure line 586 catches)
\* skips that highlight only: when the task of a job that entered
\* generating_clips has returned and no render raised another exception, the
\* renderer was invoked once for every highlight, the job is completed, and
\* its clips are those of the highlights whose render succeeded, in order.
C8_FailedRenderSkipsOneHighlight ==
    \A j \in JobIds :
        (Has(log[j], "generate_clips") /\ ~Has(log[j], "render Exception")
            /\ Ended(j)) =>
            /\ jobs[j].status = "completed"
            /\ Len(RenderLog(j)) = Len(highlights[j])
            /\ jobs[j].clips = Rendered(highlights[j], RenderLog(j))
            /\ Len(jobs[j].clips) <= Len(highlights[j])

C8_Witness ==
    \E j \in JobIds :
        /\ pc[j] = "done"
        /\ RenderLog(j) = <<"render ffmpeg.Error", "render ok">>
        /\ jobs[j].status = "completed"
        /\ Len(jobs[j].clips) = 1 /\ jobs[j].clips[1].title = "t2"

(***************************************************************************)
(* Properties of the store under sequential calls (StoreSpec)              *)
(***************************************************************************)
Mutators == {"update_status", "add_clip", "mark_completed", "mark_failed"}
JobFields == {"status", "current_step", "progress", "message", "error", "clips"}
SameFields(r, s) == \A f \in JobFields : r[f] = s[f]

\* C2: once a job's status is completed or failed, an update_status,
\* add_clip, mark_completed or mark_failed on its id changes none of status,
\* current_step, progress, message, error, clips.
C2_TerminalIsFrozen ==
    [][ \A id \in DOMAIN jobs :
          (jobs[id].status \in Terminal /\ last'.op \in Mutators /\ last'.id = id)
              => (id \in DOMAIN jobs' /\ SameFields(jobs[id], jobs'[id])) ]_vars

\* C9: create_job on an id the store does not hold inserts a job with status
\* initializing, current_step starting, progress 0, no error and no clips;
\* create_job on an id the store holds fails with AlreadyExists and leaves
\* the job's record as it was.
C9_CreateOnlyOnce ==
    [][ last'.op = "create_job" =>
          IF last'.id \in DOMAIN jobs
          THEN last'.raised = "AlreadyExists" /\ jobs' = jobs
          ELSE /\ last'.raised = None
               /\ last'.id \in DOMAIN jobs'
               /\ jobs'[last'.id].status = "initializing"
               /\ jobs'[last'.id].current_step = "starting"
               /\ jobs'[last'.id].progress = 0
               /\ jobs'[last'.id].error = None
               /\ jobs'[last'.id].clips = <<>> ]_vars

\* C10: update_status, add_clip, mark_completed and mark_failed on an id the
\* store does not hold do not raise and leave the whole store unchanged.
C10_UnknownIdIsNoOp ==
    [][ (last'.op \in Mutators /\ last'.id \notin DOMAIN jobs)
          => (last'.raised = None /\ jobs' = jobs) ]_vars

C10_Witness ==
    /\ last.op = "update_status" /\ last.id = "b" /\ last.raised = None
    /\ last.args = EntryKwargs("transcribing")
    /\ DOMAIN jobs = {"a"}
    /\ jobs["a"].progress = 40

(***************************************************************************)
(* Properties of the store under concurrent calls (ThreadSpec)             *)
(***************************************************************************)
Returned(t, op, id) ==
    tpc[t] = "done" /\ tcall[t].op = op /\ tcall[t].id = id
Writes(c, key) ==
    c.op = "update_status" /\ \E i \in 1..Len(c.kwargs) : c.kwargs[i][1] = key
Appenders(id) == {t \in Threads : Returned(t, "add_clip", id)}

\* C3: of the threads calling update_status and add_clip on job "a", every
\* add_clip that has returned left its clip in the job, the job holds exactly
\* as many clips as add_clip calls have returned, and a field written by an
\* update_status call that has returned holds that call's value unless
\* another thread's call writes the same field.
C3_NoLostUpdates ==
    /\ "a" \in DOMAIN jobs
    /\ Len(jobs["a"].clips) = Cardinality(Appenders("a"))
    /\ \A t \in Appenders("a") : Has(jobs["a"].clips, tcall[t].clip_info)
    /\ \A t \in Threads :
         Returned(t, "update_status", "a") =>
             \A i \in 1..Len(tcall[t].kwargs) :
                 (\A u \in Threads \ {t} :
                      ~(tcall[u].id = "a" /\ Writes(tcall[u], tcall[t].kwargs[i][1])))
                     => jobs["a"][tcall[t].kwargs[i][1]] = tcall[t].kwargs[i][2]

C3_Witness ==
    /\ Appenders("a") # {}
    /\ Len(jobs["a"].clips) = Cardinality(Appenders("a"))
    /\ \E t, u \in Threads :
         /\ Returned(t, "update_status", "a") /\ Writes(tcall[t], "status")
         /\ Returned(u, "update_status", "a") /\ Writes(tcall[u], "message")
         /\ jobs["a"].status = "processing" /\ jobs["a"].progress = 20
         /\ jobs["a"].message = "m" /\ jobs["a"].error = "e"

(***************************************************************************)
(* Properties of the dictionary get_status returns (SnapSpec)              *)
(***************************************************************************)
\* C11: what get_status returned is not a live reference: a mutation the
\* caller makes on it (an append to its clips included) leaves the store as
\* it was, and a later add_clip or update_status on the store leaves it as
\* it was.
C11_SnapshotIsDetached ==
    [][ /\ (clock' = clock => jobs' = jobs)
        /\ (clock' # clock /\ last'.op \in {"add_clip", "update_status"})
              => snap'.value = snap.value ]_vars

(***************************************************************************)
(* Properties of update_status and the job's timestamps (StoreSpec)        *)
(***************************************************************************)
Supplied(kwargs, f) == \E i \in 1..Len(kwargs) : kwargs[i][1] = f
SuppliedValue(kwargs, f) ==
    kwargs[CHOOSE i \in 1..Len(kwargs) : kwargs[i][1] = f][2]

\* C12: update_status on a job the store holds gives every supplied field
\* of the job its supplied value and update_time the time of the call; every
\* other field of the job, job_id included, keeps its value, no field is
\* added or removed, and no other job changes.
C12_MergesOnlySupplied ==
    [][ (last'.op = "update_status" /\ last'.id \in DOMAIN jobs) =>
          /\ DOMAIN jobs' = DOMAIN jobs
          /\ \A k \in DOMAIN jobs \ {last'.id} : jobs'[k] = jobs[k]
          /\ DOMAIN jobs'[last'.id] = DOMAIN jobs[last'.id]
          /\ \A f \in DOMAIN jobs[last'.id] :
                IF Supplied(last'.args, f)
                THEN jobs'[last'.id][f] = SuppliedValue(last'.args, f)
                ELSE IF f = "update_time"
                THEN jobs'[last'.id][f] = clock
                ELSE jobs'[last'.id][f] = jobs[last'.id][f] ]_vars

C12_Witness ==
    /\ last.op = "update_status" /\ last.id = "a"
    /\ last.args = EntryKwargs("transcribing")
    /\ {"a", "b"} \subseteq DOMAIN jobs
    /\ jobs["a"].status = "processing" /\ jobs["a"].progress = 20
    /\ jobs["a"].clips = <<ClipB>>
    /\ jobs["a"].update_time = clock - 1
    /\ jobs["a"].start_time < jobs["a"].update_time

\* C13: every create_job, update_status, add_clip, mark_completed or
\* mark_failed that changes a job leaves that job's update_time at the time
\* of the call.
C13_MutationRefreshesUpdateTime ==
    [][ \A id \in DOMAIN jobs' :
          ( /\ last'.op \in Mutators \cup {"create_job"}
            /\ last'.id = id
            /\ (id \notin DOMAIN jobs \/ jobs'[id] # jobs[id]) )
              => jobs'[id].update_time = clock ]_vars

\* C14: mark_completed on a job the store holds leaves status completed,
\* current_step completed and progress 100; mark_failed leaves status failed
\* and error the given reason, with progress and current_step as they were.
C14_TerminalWrappers ==
    [][ /\ (last'.op = "mark_completed" /\ last'.id \in DOMAIN jobs) =>
              /\ jobs'[last'.id].status = "completed"
              /\ jobs'[last'.id].current_step = "completed"
              /\ jobs'[last'.id].progress = 100
        /\ (last'.op = "mark_failed" /\ last'.id \in DOMAIN jobs) =>
              /\ jobs'[last'.id].status = "failed"
              /\ jobs'[last'.id].error = last'.args[1]
              /\ jobs'[last'.id].progress = jobs[last'.id].progress
              /\ jobs'[last'.id].current_step = jobs[last'.id].current_step ]_vars

StatusEnum == {"initializing", "processing", "completed", "failed"}
StepEnum == {"starting", "downloading", "transcribing", "analyzing",
             "generating_clips", "completed"}

\* C15: every job's status is one of initializing, processing, completed,
\* failed and its current_step is one of starting, downloading, transcribing,
\* analyzing, generating_clips, completed.
C15_EnumeratedFields ==
    \A id \in DOMAIN jobs :
        jobs[id].status \in StatusEnum /\ jobs[id].current_step \in StepEnum

(***************************************************************************)
(* Properties of the job's fields along the pipeline (Spec)                *)
(***************************************************************************)
\* C16: every job's progress is within 0..100 after every step, and a step
\* that finds a job processing and leaves it processing does not lower its
\* progress.
C16_ProgressBoundedAndRising ==
    [][ \A j \in DOMAIN jobs' :
          /\ jobs'[j].progress \in 0..100
          /\ ( /\ j \in DOMAIN jobs
               /\ jobs[j].status = "processing"
               /\ jobs'[j].status = "processing" )
                 => jobs'[j].progress >= jobs[j].progress ]_vars

C16_Witness ==
    \E j, k \in DOMAIN jobs :
        /\ jobs[j].status = "processing"
        /\ jobs[j].current_step = "generating_clips" /\ jobs[j].progress = 60
        /\ Has(log[j], "render ok")
        /\ jobs[k].status = "completed" /\ jobs[k].progress = 100

\* C17: a job's error is not None exactly when its status is failed.
C17_ErrorIffFailed ==
    \A id \in DOMAIN jobs :
        (jobs[id].error # None) <=> (jobs[id].status = "failed")

C17_Witness ==
    \E j, k \in DOMAIN jobs :
        /\ jobs[j].status = "failed" /\ jobs[j].current_step = "analyzing"
        /\ jobs[j].error = "Analysis error: Failed to identify highlights: "
        /\ jobs[k].status = "completed" /\ jobs[k].error = None
        /\ pc[j] = "done" /\ pc[k] = "done"

(***************************************************************************)
(* Properties of extract_srt_segment (SrtSpec)                             *)
(***************************************************************************)
WindowOk == srt.end_seconds > srt.start_seconds /\ srt.start_seconds >= 0
WindowLength == srt.end_seconds - srt.start_seconds
Returned_srt == srt.pc = "returned"

\* the place in the source file of the block with this text
PlaceOf(text) ==
    CHOOSE i \in 1..Len(srt.srt_content) : srt.srt_content[i].text = text

CuesWithin(blocks) ==
    /\ \A k \in 1..Len(blocks) :
         /\ blocks[k].index = k
         /\ 0 <= StampMs(blocks[k].start)
         /\ StampMs(blocks[k].start) <= StampMs(blocks[k].end)
         /\ StampMs(blocks[k].end) <= WindowLength
         /\ \E i \in 1..Len(srt.srt_content) :
                srt.srt_content[i].text = blocks[k].text
    /\ \A k, l \in 1..Len(blocks) :
         k < l => PlaceOf(blocks[k].text) < PlaceOf(blocks[l].text)

\* C18: for a window with end > start >= 0, every cue extract_srt_segment
\* has collected or written starts at or after 0, ends at or after its
\* start and at or before the window's length; the cues are numbered 1..N
\* and stand in the order of the source blocks they were made from.
C18_CuesWithinWindow ==
    (srt.pc \in {"loop", "returned"} /\ WindowOk) =>
        CuesWithin(srt.relevant_blocks) /\ CuesWithin(srt.output)

C18_Witness ==
    /\ Returned_srt /\ WindowOk
    /\ Len(srt.srt_content) = 2 /\ Len(srt.output) = 2
    /\ StampMs(srt.srt_content[1].start) < srt.start_seconds
    /\ StampMs(srt.srt_content[2].end) > srt.end_seconds
    /\ StampMs(srt.output[1].start) = 0
    /\ StampMs(srt.output[2].end) = WindowLength

Kept(i) == \E k \in 1..Len(srt.output) : srt.output[k].text = srt.srt_content[i].text
KeptAs(i) ==
    srt.output[CHOOSE k \in 1..Len(srt.output) :
                   srt.output[k].text = srt.srt_content[i].text]
Overlaps(block) ==
    ~ ( \/ StampMs(block.end) < srt.start_seconds
        \/ StampMs(block.start) > srt.end_seconds )

\* C19: of a source file that was read, extract_srt_segment writes a cue for
\* a time-coded block exactly when the block's end is not before the
\* window's start and its start is not after the window's end, and the
\* written cue runs from max(0, start - windowStart) to
\* min(windowEnd - windowStart, end - windowStart).
C19_KeepsOverlappingCues ==
    (Returned_srt /\ srt.read_ok) =>
        \A i \in 1..Len(srt.srt_content) :
            IsCue(srt.srt_content[i]) =>
                /\ Kept(i) <=> Overlaps(srt.srt_content[i])
                /\ Kept(i) =>
                     /\ StampMs(KeptAs(i).start) =
                            max(0, StampMs(srt.srt_content[i].start)
                                     - srt.start_seconds)
                     /\ StampMs(KeptAs(i).end) =
                            min(srt.end_seconds - srt.start_seconds,
                                StampMs(srt.srt_content[i].end)
                                  - srt.start_seconds)

WellFormed(block) == block.lines >= 3 /\ time_match(block)

\* the loop's result on the file without its malformed blocks
WithoutMalformed ==
    Run([srt EXCEPT !.pc = "loop",
                    !.subtitle_blocks =
                        subtitle_blocks(SelectSeq(srt.srt_content, WellFormed)),
                    !.i = 1, !.new_index = 1,
                    !.relevant_blocks = <<>>]).relevant_blocks

\* C20: extract_srt_segment does not raise; once it has returned it has
\* written the output file; of a file that was read it writes no cue when
\* the file holds no block overlapping the window, and it writes what it
\* would write of the same file without the blocks of fewer than three
\* lines and the blocks whose time line is no time range; of a file that
\* could not be read it writes an empty output.
C20_ExtractNeverRaises ==
    /\ srt.pc \in {"open", "loop", "except", "returned"}
    /\ Returned_srt =>
         /\ srt.written
         /\ ~srt.read_ok => srt.output = <<>>
         /\ srt.read_ok =>
              /\ srt.output = WithoutMalformed
              /\ (\A i \in 1..Len(srt.srt_content) :
                     IsCue(srt.srt_content[i]) => ~Overlaps(srt.srt_content[i]))
                   => srt.output = <<>>

C20_Witness ==
    /\ Returned_srt /\ srt.read_ok
    /\ Len(srt.srt_content) = 2
    /\ srt.srt_content[1] = [NoRangeBlock EXCEPT !.text = "text1"]
    /\ Len(srt.output) = 1
    /\ srt.output[1].index = 1 /\ srt.output[1].text = "text2"

(***************************************************************************)
(* The time codec on its own (TimeSpec): one time string is parsed by      *)
(* time_to_seconds, the result is written by seconds_to_srt_time, and the  *)
(* stamp written is parsed again.                                          *)
(***************************************************************************)
MaxParts == 4

\* the ':'-separated parts a string is drawn from: "0", "1", "2.300",
\* "01,001", "02,500" and a part that is not a number ("xx" or "")
TimeParts ==
    {IntPart(0), IntPart(1), DecPart(2300), CommaPart(1001), CommaPart(2500),
     BadPart}

TimeStrings == UNION {[1..n -> TimeParts] : n \in 1..MaxParts}

TimeCall(time_str) ==
    [pc |-> "call", time_str |-> time_str, parsed |-> Value(0),
     text |-> <<>>, again |-> Value(0)]

TimeInit ==
    /\ StoreInit /\ PipeIdle /\ ThreadsIdle
    /\ snap = NoSnap
    /\ srt = NoSrt
    /\ dl = NoDl
    /\ tc \in {TimeCall(s) : s \in TimeStrings}

\* lines 656-672: the call returns a number or leaves with ValueError
Time_Parse ==
    /\ tc.pc = "call"
    /\ LET r == time_to_seconds(tc.time_str)
       IN  tc' = [tc EXCEPT !.parsed = r,
                            !.pc = IF r.raised = None THEN "parsed" ELSE "raised"]
    /\ UNCHANGED <<jobs, clock, disk, last, pipeVars, threadVars, snap, srt, dl>>

\* lines 674-683
Time_Format ==
    /\ tc.pc = "parsed"
    /\ tc' = [tc EXCEPT !.text = seconds_to_srt_time(tc.parsed.value),
                         !.pc = "formatted"]
    /\ UNCHANGED <<jobs, clock, disk, last, pipeVars, threadVars, snap, srt, dl>>

\* lines 656-672, on the stamp seconds_to_srt_time wrote
Time_Reparse ==
    /\ tc.pc = "formatted"
    /\ tc' = [tc EXCEPT !.again = time_to_seconds(tc.text), !.pc = "done"]
    /\ UNCHANGED <<jobs, clock, disk, last, pipeVars, threadVars, snap, srt, dl>>

TimeNext == Time_Parse \/ Time_Format \/ Time_Reparse

TimeSpec == TimeInit /\ [][TimeNext]_vars

(***************************************************************************)
(* Properties of the time codec (TimeSpec)                                 *)
(***************************************************************************)
\* "HH:MM:SS[.fraction]", "MM:SS[.fraction]" or a bare number
WellFormedTime(t) ==
    \/ Len(t) = 3 /\ IntOk(t[1]) /\ IntOk(t[2]) /\ FloatOk(t[3])
    \/ Len(t) = 2 /\ IntOk(t[1]) /\ FloatOk(t[2])
    \/ Len(t) = 1 /\ t[1].kind \in {"int", "dec"}

TimeParsed == tc.pc \in {"parsed", "raised", "formatted", "done"}

\* C21: time_to_seconds never raises, and every string that is not a
\* well-formed HH:MM:SS[.fraction], MM:SS[.fraction] or bare number yields
\* 0.0.  The code raises ValueError for a string of two or three parts with
\* a part that is not a number ("0:xx", "1::2").
C21_NeverRaises ==
    TimeParsed =>
        /\ tc.parsed.raised = None
        /\ ~WellFormedTime(tc.time_str) => tc.parsed.value = 0

\* "HH:MM:SS", "MM:SS" or "HH:MM:SS,mmm"
Supported(t) ==
    \/ Len(t) = 3 /\ IntOk(t[1]) /\ IntOk(t[2]) /\ t[3].kind \in {"int", "cdec"}
    \/ Len(t) = 2 /\ IntOk(t[1]) /\ IntOk(t[2])

\* C22: for every valid time string t in a supported format,
\* time_to_seconds(seconds_to_srt_time(time_to_seconds(t))) is the moment
\* time_to_seconds(t), to the millisecond.  The code returns 1.0 for
\* "00:00:01,001": the stamp written in between is "00:00:01,000".
C22_RoundTrip ==
    tc.pc = "done" /\ Supported(tc.time_str) =>
        /\ tc.again.raised = None
        /\ tc.again.value = tc.parsed.value

\* C23: every clip stored in a job has duration = end_time - start_time and
\* duration > 0, whatever highlights the selector returned.  The code stores
\* the clip of a highlight that ends before it starts with its negative
\* duration when the renderer reports success for it.
C23_ClipDurations ==
    \A j \in DOMAIN jobs :
        \A i \in 1..Len(jobs[j].clips) :
            /\ jobs[j].clips[i].duration
                   = jobs[j].clips[i].end_time - jobs[j].clips[i].start_time
            /\ jobs[j].clips[i].duration > 0

\* the generating_clips stage of job j has finished successfully
GenerationFinished(j) ==
    /\ Has(log[j], "generate_clips")
    /\ idx[j] > Len(highlights[j])
    /\ jobs[j].status = "completed"

ClipsOnlyWhenGenerated ==
    \A j \in DOMAIN jobs :
        /\ ~GenerationFinished(j) => jobs[j].clips = <<>>
        /\ jobs[j].status \in {"initializing", "processing", "failed"}
               => jobs[j].clips = <<>>

\* C24: the clips list of a job driven by the pipeline is empty in every
\* state before its generating_clips stage has finished successfully, in
\* particular while its status is initializing, processing or failed, and
\* no step changes the clips list of a job whose status is completed or
\* failed.
C24_ClipsEmptyUntilGenerated ==
    [][/\ ClipsOnlyWhenGenerated'
       /\ \A j \in DOMAIN jobs :
            jobs[j].status \in Terminal => jobs'[j].clips = jobs[j].clips]_vars

\* one job is completed with the clips rendered for it, its done callback
\* has run, and another failed in generating_clips after a clip was rendered
C24_Witness ==
    \E j, k \in DOMAIN jobs :
        /\ pc[j] = "done" /\ jobs[j].status = "completed"
        /\ jobs[j].clips # <<>>
        /\ pc[k] = "done" /\ jobs[k].status = "failed"
        /\ generated_clips[k] # <<>> /\ jobs[k].clips = <<>>

IsFetch(e) == e = "fetch"
IsTranscribe(e) == e = "transcribe"
IsSelect(e) == e = "select"

\* C25: no stage is retried: for one job the media fetcher, the transcriber
\* and the highlight selector are each invoked at most once and the renderer
\* at most once per highlight, and no step takes a job whose status is failed
\* to another status.
C25_NoStageRetried ==
    [][/\ \A j \in JobIds :
            /\ Len(SelectSeq(log'[j], IsFetch)) <= 1
            /\ Len(SelectSeq(log'[j], IsTranscribe)) <= 1
            /\ Len(SelectSeq(log'[j], IsSelect)) <= 1
            /\ Len(RenderLog(j))' <= Len(highlights'[j])
       /\ \A j \in DOMAIN jobs :
            jobs[j].status = "failed" => jobs'[j].status = "failed"]_vars

\* one job failed in transcribing after one fetch and one transcription, the
\* other went through all four collaborators, the renderer once per highlight
C25_Witness ==
    \E j, k \in JobIds :
        /\ pc[j] = "done" /\ jobs[j].status = "failed"
        /\ Has(log[j], "fetch") /\ Has(log[j], "except transcribing")
        /\ pc[k] = "done" /\ jobs[k].status = "completed"
        /\ Has(log[k], "select")
        /\ Len(highlights[k]) = MaxHighlights
        /\ Len(RenderLog(k)) = Len(highlights[k])

(***************************************************************************)
(* The download in detail (processor.py 61-175), for LiveSpec.  The child  *)
(* process writes lines to its stdout and stderr pipes, waits while the    *)
(* pipe it writes to is full, and exits when it has written everything.    *)
(* The task polls the child and reads one line from each pipe in turn;     *)
(* readline() on a pipe of a running child returns when a line is there.   *)
(* Pipes are counted in lines.                                             *)
(***************************************************************************)
PipeCap == 1
MaxLines == 2

DlFrame == <<disk, last, highlights, idx, generated_clips, threadVars,
             snap, srt, tc>>

\* the loop is left and the child is gone: killed (line 113), or waited for
\* by communicate(), which reads what is left in the pipes (line 131)
LeftChild ==
    [pc |-> "left", child |-> "exited", out |-> 0, err |-> 0,
     left_out |-> 0, left_err |-> 0, stdout_line |-> FALSE]

\* lines 90-108: subprocess.Popen(..., stdout=PIPE, stderr=PIPE)
Dl_Popen(j) ==
    /\ loop = Free
    /\ pc[j] = "downloading"
    /\ dl[j].pc = "idle"
    /\ \E o, e \in 0..MaxLines :
         /\ o + e <= MaxLines
         /\ dl' = [dl EXCEPT ![j] =
                     [pc |-> "poll", child |-> "running", out |-> 0, err |-> 0,
                      left_out |-> o, left_err |-> e, stdout_line |-> FALSE]]
    /\ loop' = j
    /\ UNCHANGED <<jobs, clock, pc, log>>
    /\ UNCHANGED DlFrame

\* line 109: process.poll() is None, and line 111 finds the time not up
Dl_Poll(j) ==
    /\ loop = j
    /\ dl[j].pc = "poll"
    /\ dl[j].child = "running"
    /\ dl' = [dl EXCEPT ![j].pc = "stdout"]
    /\ UNCHANGED <<jobs, clock, pc, log, loop>>
    /\ UNCHANGED DlFrame

\* lines 111-114, 143-145, 165-175: the time is up, the child is killed
Dl_Timeout(j) ==
    /\ loop = j
    /\ dl[j].pc = "poll"
    /\ dl[j].child = "running"
    /\ dl' = [dl EXCEPT ![j] = LeftChild]
    /\ Advance(j, Caught("downloading",
                         StageFailed(jobs, j, "downloading", "", clock)))
    /\ UNCHANGED DlFrame

\* line 117: process.stdout.readline() returns a line, or '' at end of file
Dl_ReadStdout(j) ==
    /\ loop = j
    /\ dl[j].pc = "stdout"
    /\ dl[j].out > 0 \/ dl[j].child = "exited"
    /\ dl' = [dl EXCEPT ![j].pc = "stderr",
                        ![j].out = IF @ > 0 THEN @ - 1 ELSE 0,
                        ![j].stdout_line = dl[j].out > 0]
    /\ UNCHANGED <<jobs, clock, pc, log, loop>>
    /\ UNCHANGED DlFrame

\* lines 122-128: process.stderr.readline(); asyncio.sleep if both were ''
Dl_ReadStderr(j) ==
    /\ loop = j
    /\ dl[j].pc = "stderr"
    /\ dl[j].err > 0 \/ dl[j].child = "exited"
    /\ LET stderr_line == dl[j].err > 0
       IN  /\ dl' = [dl EXCEPT ![j].pc = IF dl[j].stdout_line \/ stderr_line
                                         THEN "poll" ELSE "sleep",
                               ![j].err = IF @ > 0 THEN @ - 1 ELSE 0,
                               ![j].stdout_line = FALSE]
           /\ loop' = IF dl[j].stdout_line \/ stderr_line THEN j ELSE Free
    /\ UNCHANGED <<jobs, clock, pc, log>>
    /\ UNCHANGED DlFrame

\* line 128: the sleep is over, the task is resumed
Dl_Wake(j) ==
    /\ loop = Free
    /\ dl[j].pc = "sleep"
    /\ dl' = [dl EXCEPT ![j].pc = "poll"]
    /\ loop' = j
    /\ UNCHANGED <<jobs, clock, pc, log>>
    /\ UNCHANGED DlFrame

\* lines 109, 130-179: the child has exited; by its return code and the file
\* it left, the next stage is entered or the download has failed
Dl_End(j) ==
    /\ loop = j
    /\ dl[j].pc = "poll"
    /\ dl[j].child = "exited"
    /\ dl' = [dl EXCEPT ![j] = LeftChild]
    /\ \/ Advance(j, StageEntered(jobs, j, "transcribing", clock))
       \/ Advance(j, Caught("downloading",
                            StageFailed(jobs, j, "downloading", "", clock)))
    /\ UNCHANGED DlFrame

\* the child writes a line to a pipe that has room for it
Child_Write(j) ==
    /\ dl[j].child = "running"
    /\ \/ /\ dl[j].left_out > 0
          /\ dl[j].out < PipeCap
          /\ dl' = [dl EXCEPT ![j].out = @ + 1, ![j].left_out = @ - 1]
       \/ /\ dl[j].left_err > 0
          /\ dl[j].err < PipeCap
          /\ dl' = [dl EXCEPT ![j].err = @ + 1, ![j].left_err = @ - 1]
    /\ UNCHANGED <<jobs, clock, pc, log, loop>>
    /\ UNCHANGED DlFrame

\* the child has written all its output and exits
Child_Exit(j) ==
    /\ dl[j].child = "running"
    /\ dl[j].left_out = 0
    /\ dl[j].left_err = 0
    /\ dl' = [dl EXCEPT ![j].child = "exited"]
    /\ UNCHANGED <<jobs, clock, pc, log, loop>>
    /\ UNCHANGED DlFrame

(***************************************************************************)
(* LiveSpec: the pipeline with the download in detail.  The event loop     *)
(* runs a task that can run, and a child process that can go on does.      *)
(***************************************************************************)
Task(j) ==
    \/ TaskStart(j)
    \/ Dl_Popen(j)
    \/ Dl_Poll(j)
    \/ Dl_Timeout(j)
    \/ Dl_ReadStdout(j)
    \/ Dl_ReadStderr(j)
    \/ Dl_Wake(j)
    \/ Dl_End(j)
    \/ TranscribeDone(j)
    \/ AnalyzeDone(j)
    \/ RenderDone(j)
    \/ Complete(j)
    \/ handle_task_result(j)

Child(j) == Child_Write(j) \/ Child_Exit(j)

LiveNext == \E j \in JobIds : ProcessVideo(j) \/ Task(j) \/ Child(j)

LiveSpec ==
    /\ Init
    /\ [][LiveNext]_vars
    /\ \A j \in JobIds : WF_vars(Task(j)) /\ WF_vars(Child(j))

\* C26: when every collaborator call returns and the task is scheduled
\* fairly, every launched job eventually has status completed or failed.
\* The code leaves a job in processing / downloading for ever when the
\* download child fills one pipe while the task waits in readline() on the
\* other.
C26_EveryJobEnds ==
    \A j \in JobIds :
        (pc[j] # "none") ~> (j \in DOMAIN jobs /\ jobs[j].status \in Terminal)

(***************************************************************************)
(* Properties of persistence (PersistSpec)                                 *)
(***************************************************************************)
SameJobs(js, saved) ==
    /\ DOMAIN js = DOMAIN saved
    /\ \A id \in DOMAIN saved : SameFields(js[id], saved[id])

FloorOf(stage) ==
    CASE stage = "downloading" -> 0
      [] stage = "transcribing" -> 20
      [] stage = "analyzing" -> 40
      [] stage = "generating_clips" -> 60

StageNames == {Stages[i] : i \in 1..Len(Stages)}

\* the step in which job j's task invokes the collaborator of stage
Invokes(j, stage) ==
    /\ Len(log'[j]) > Len(log[j])
    /\ log'[j][Len(log'[j])] = Collaborator(stage)

\* C28: the step that invokes a stage's collaborator has first written
\* status processing, current_step that stage and the stage's floor
\* (downloading 0, transcribing 20, analyzing 40, generating_clips 60); in
\* every state a processing job's progress is the floor of its current_step,
\* and a completed job has current_step completed and progress 100.
C28_EntryWritesFloor ==
    [][\A j \in DOMAIN jobs' :
          /\ \A stage \in StageNames :
               Invokes(j, stage) =>
                 /\ log'[j][Len(log'[j]) - 1] = "update_status"
                 /\ jobs'[j].status = "processing"
                 /\ jobs'[j].current_step = stage
                 /\ jobs'[j].progress = FloorOf(stage)
          /\ jobs'[j].status = "processing" =>
                 /\ jobs'[j].current_step \in StageNames
                 /\ jobs'[j].progress = FloorOf(jobs'[j].current_step)
          /\ jobs'[j].status = "completed" =>
                 /\ jobs'[j].current_step = "completed"
                 /\ jobs'[j].progress = 100]_vars

\* one job waits for the selector at progress 40 while the other is
\* completed at 100
C28_Witness ==
    \E j, k \in DOMAIN jobs :
        /\ pc[j] = "analyzing" /\ jobs[j].status = "processing"
        /\ jobs[j].current_step = "analyzing" /\ jobs[j].progress = 40
        /\ log[j][Len(log[j])] = "select"
        /\ jobs[k].status = "completed" /\ jobs[k].progress = 100

(***************************************************************************)
(* Properties of the shared store (SharedSpec)                             *)
(***************************************************************************)
\* the other jobs are the same before and after the step
OthersKept(id) ==
    \A k \in DOMAIN jobs \ {id} : k \in DOMAIN jobs' /\ jobs'[k] = jobs[k]

\* a step of job j's pipeline; a call made on the store from outside
PipelineStep(j) == pc'[j] # pc[j] \/ log'[j] # log[j]
OutsideCall == pipeVars' = pipeVars /\ clock' # clock

FailedStage(j, stage) == Has(log[j], "except " \o stage)

\* what job j shows once its pipeline has ended, by what its own
\* collaborators answered
OwnOutcome(j) ==
    IF pc[j] = "rejected"
    THEN /\ jobs[j].status = "failed" /\ jobs[j].current_step = "starting"
         /\ jobs[j].clips = <<>>
    ELSE IF \E stage \in StageNames : FailedStage(j, stage)
    THEN /\ jobs[j].status = "failed"
         /\ FailedStage(j, jobs[j].current_step)
         /\ jobs[j].clips = <<>>
    ELSE /\ jobs[j].status = "completed"
         /\ jobs[j].clips = Rendered(highlights[j], RenderLog(j))

\* C29: an update_status, add_clip, mark_completed, mark_failed (or
\* create_job) on one job id leaves every other job as it was, a step of one
\* job's pipeline leaves every other job as it was, and the status and clips
\* a job ends with are those its own collaborators' answers give, whatever
\* the other jobs and callers did in between.
C29_JobsAreIndependent ==
    [][/\ OutsideCall => OthersKept(last'.id)
       /\ \A j \in JobIds : PipelineStep(j) => OthersKept(j)
       /\ \A j \in JobIds :
            (pc'[j] \in {"rejected", "returned", "done"}) => OwnOutcome(j)']_vars

\* job "a" was marked failed from outside while the pipeline of job "b" was
\* running, and "b" is completed with the clips rendered for it
C29_Witness ==
    /\ pc["a"] = "none" /\ "a" \in DOMAIN jobs
    /\ jobs["a"].status = "failed" /\ last.op = "mark_failed"
    /\ pc["b"] = "done" /\ jobs["b"].status = "completed"
    /\ jobs["b"].clips # <<>>
    /\ jobs["a"].update_time > jobs["b"].start_time

(***************************************************************************)
(* Properties of the existence test (RaceSpec)                             *)
(***************************************************************************)
Indexing == {"update_status", "add_clip", "get_status"}

\* C30: no step takes a job out of the store, so job_exists stays true once
\* it is; and a thread that found its job by the test made outside the lock
\* finds it again when it indexes the map under the lock, whatever
\* create_job, add_clip, update_status and load_from_disk calls of other
\* threads came in between: no call ends with a KeyError.
C30_ExistenceIsStable ==
    [][/\ \A id \in DOMAIN jobs : job_exists(jobs', id)
       /\ \A t \in Threads :
            /\ tpc'[t] # "raised"
            /\ (tpc'[t] \in {"acquire", "body"} /\ tcall'[t].op \in Indexing)
                   => tcall'[t].id \in DOMAIN jobs']_vars

\* job "b" was created by one thread; a second thread has found it by the test
\* and waits for the lock, which a third holds inside load_from_disk
C30_Witness ==
    \E t, u, v \in Threads :
        /\ Returned(t, "create_job", "b")
        /\ tpc[u] = "body" /\ tcall[u].op = "load_from_disk" /\ lock = u
        /\ tpc[v] = "acquire" /\ tcall[v].op = "update_status"
        /\ tcall[v].id = "b"

(***************************************************************************)
(* Snapshots taken while update_status calls are under way (ThreadSpec)    *)
(***************************************************************************)
UpdatesOf(id) ==
    {u \in Threads : tcall[u].op = "update_status" /\ tcall[u].id = id}

\* the snapshot v shows the value that thread u's call gives to its i-th field
ShowsItem(v, u, i) == v[tcall[u].kwargs[i][1]] = tcall[u].kwargs[i][2]

\* another call on the same job that has returned gave its own value to
\* the i-th field of u's call
WrittenOver(id, u, i) ==
    \E w \in UpdatesOf(id) \ {u} :
        /\ tpc[w] = "done"
        /\ Writes(tcall[w], tcall[u].kwargs[i][1])

\* v shows some field of one update_status call and misses another field of
\* the same call that no returned call has written since
Torn(v, id) ==
    \E u \in UpdatesOf(id) :
        \E i, k \in 1..Len(tcall[u].kwargs) :
            /\ ShowsItem(v, u, i)
            /\ ~ShowsItem(v, u, k)
            /\ ~WrittenOver(id, u, k)

\* C31: whenever a get_status call returns, under every interleaving with
\* the update_status calls of other threads on the same job, the snapshot
\* it returns shows all the fields of each such call or none of them (a
\* field may show the value of another call that has returned since); and
\* at that moment no update_status call on the job is between its first
\* field write and its update_time write.
C31_SnapshotsAreAtomic ==
    [][\A t \in Threads :
         (tpc[t] = "body" /\ tcall[t].op = "get_status" /\ tpc'[t] = "done")
             => /\ ~Torn(last'.value, tcall[t].id)
                /\ \A u \in UpdatesOf(tcall[t].id) : tpc[u] # "body"]_vars

\* one reader has returned a snapshot that shows none of a two-field update;
\* the writer of that update is now between its two field writes, the job
\* holding the first value without the second; a second reader has passed
\* the existence test and waits for the lock
C31_Witness ==
    \E r, u, q \in Threads :
        /\ Returned(r, "get_status", "a")
        /\ last.op = "get_status" /\ last.raised = None
        /\ last.value.message = "Job initialized" /\ last.value.error = None
        /\ tpc[u] = "body" /\ lock = u /\ tpos[u] = 2
        /\ tcall[u] = Call("update_status", "a",
                           << <<"message", "m">>, <<"error", "e">> >>, NoClip)
        /\ jobs["a"].message = "m" /\ jobs["a"].error = None
        /\ tpc[q] = "acquire" /\ tcall[q].op = "get_status"
        /\ r # q

====
